---- MODULE Spec2Model ----
(***************************************************************************)
(* A model of the ahmi highlight-compilation pipeline:                     *)
(*   audio.py          keyword timestamps -> timeline segments             *)
(*   draft/segments.py timeline segments  -> segment units (clips)         *)
(*   final.py          segment units      -> composed final videos         *)
(* Times are whole seconds.  Files are modelled by their names; the media  *)
(* engine (ffmpeg) is a nondeterministic success / non-zero exit.          *)
(***************************************************************************)
EXTENDS Integers, Sequences, FiniteSets, TLC

VARIABLES
    \* ---- audio.py: process_audio_file
    raw_timestamps,        \* keyword occurrences found by the first pass
    audio_duration,        \* the duration handed to process_audio_file
    processed_timestamps,  \* the returned segment list
    audioPc,               \* "idle" | "start" | "returned"
    \* ---- draft/segments.py: main, process_segments, create_segment
    json_files,            \* the timeline documents of temp_transcriptions, in listing order
    clipsDir,              \* keyword -> "missing" | "empty" | "clips" (the folder clips/<keyword>)
    segMain,               \* "idle" | "start" | "loop" | "nofiles" | "done" | "error"
    fileIdx,               \* the json file main is at (1-based)
    segIdx,                \* i of enumerate(segments_data) (0-based, as in the file names)
    csPc,                  \* create_segment: "idle" | "concat" | "trim"
    cwd,                   \* the temporary files that exist in the working directory
    segmentsDir,           \* the file names in segments/
    \* ---- final.py: main, group_segments, process_video_group
    segListing,            \* os.listdir(SEGMENTS_DIR), in listing order
    audioDir,              \* os.listdir(AUDIO_DIR): the recordings' base names, in listing order
    segment_groups,        \* the dict of group_segments, in iteration order
    finMain,               \* "idle" | "start" | "loop" | "nosegments" | "done" | "error"
    groupIdx,              \* the group main is at (1-based)
    pvgPc,                 \* process_video_group: "idle" or the engine step it is about to run
    segments,              \* process_video_group: the sorted segment files of the concat list
    audio_file,            \* process_video_group: the narration audio get_audio_file returned
    engineLog,             \* the engine invocations so far: [group, step, ok]
    final_videos,          \* output file -> the group whose mux wrote it
    \* ---- two pipeline instances running at once in one working directory
    instKind,              \* instance -> "compose" (process_video_group) | "assemble" (create_segment)
    instPc,                \* instance -> the step it is about to run, "done" or "failed"
    tmpOwner,              \* temporary file name -> the instance that wrote it last, 0 if absent
    \* ---- draft/segments.py: one create_segment call, with the media durations
    clips,                 \* the seconds of each clip handed to create_segment
    duration,              \* the target duration handed to create_segment
    asmPc,                 \* "idle" | "start" | "concat" | "trim" | "returned" | "raised"
    temp_seconds,          \* the seconds of temp_concat.mp4, -1 while it does not exist
    output_seconds,        \* the seconds of the segment unit, -1 while it does not exist
    \* ---- ahmi.py: one create_title call, strings as character sequences
    title_entries,         \* the entries handed to create_title
    for_filename,          \* its for_filename flag
    full_title,            \* the returned string
    titlePc                \* "idle" | "start" | "returned"

audioVars == <<raw_timestamps, audio_duration, processed_timestamps, audioPc>>
segVars == <<json_files, clipsDir, segMain, fileIdx, segIdx, csPc, segmentsDir>>

finVars == <<segListing, audioDir, segment_groups, finMain, groupIdx, pvgPc, segments,
             audio_file, engineLog, final_videos>>

concVars == <<instKind, instPc, tmpOwner>>

asmVars == <<clips, duration, asmPc, temp_seconds, output_seconds>>

titleVars == <<title_entries, for_filename, full_title, titlePc>>

vars == <<audioVars, segVars, finVars, concVars, asmVars, titleVars, cwd>>

-----------------------------------------------------------------------------
\* Bounds of the model

MaxEvents == 3
MaxTime == 3
MaxSegs == 2
MaxClips == 2

\* Two of the EXAMPLE_KEYWORDS of audio.py
Keywords == {"luffy", "goku"}

Times == 0..MaxTime

-----------------------------------------------------------------------------
\* audio.py

\* Word timestamps of a transcription are in source order, never re-sorted.
Ordered(evs) == \A i \in 1..(Len(evs) - 1) : evs[i].starttime <= evs[i + 1].starttime

EventLists ==
    {evs \in UNION {[1..n -> [Folder : Keywords, starttime : Times]] : n \in 0..MaxEvents} :
        Ordered(evs)}

ForceFirstKeepsTime(raw) == raw

\* raw_timestamps[0]['starttime'] = 0.0
ForceFirst(raw) == [raw EXCEPT ![1].starttime = 0]

NextStartAlwaysDuration(raw, i, dur) == dur

\* raw_timestamps[i+1]['starttime'] if i+1 < len(raw_timestamps) else audio_duration
NextStart(raw, i, dur) == IF i + 1 <= Len(raw) THEN raw[i + 1].starttime ELSE dur

RECURSIVE MergeAdjacent(_)
MergeAdjacent(segs) ==
    IF Len(segs) <= 1 THEN segs
    ELSE LET rest == MergeAdjacent(Tail(segs))
         IN  IF segs[1].Folder = rest[1].Folder
                THEN <<[segs[1] EXCEPT !.endtime = rest[1].endtime]>> \o Tail(rest)
                ELSE <<segs[1]>> \o rest

CalculateEndTimesMerging(raw, dur) ==
    MergeAdjacent([i \in 1..Len(raw) |->
        [Folder |-> raw[i].Folder,
         starttime |-> raw[i].starttime,
         endtime |-> NextStart(raw, i, dur)]])

\* the "Calculate end times" loop
CalculateEndTimes(raw, dur) ==
    [i \in 1..Len(raw) |->
        [Folder |-> raw[i].Folder,
         starttime |-> raw[i].starttime,
         endtime |-> NextStart(raw, i, dur)]]

IdleAudio ==
    /\ raw_timestamps = <<>>
    /\ audio_duration = 0
    /\ processed_timestamps = <<>>
    /\ audioPc = "idle"

IdleSegments ==
    /\ json_files = <<>>
    /\ clipsDir = [k \in Keywords |-> "missing"]
    /\ segMain = "idle"
    /\ fileIdx = 0
    /\ segIdx = 0
    /\ csPc = "idle"
    /\ segmentsDir = {}

IdleFinal ==
    /\ segListing = <<>>
    /\ audioDir = <<>>
    /\ segment_groups = <<>>
    /\ finMain = "idle"
    /\ groupIdx = 0
    /\ pvgPc = "idle"
    /\ segments = <<>>
    /\ audio_file = <<>>
    /\ engineLog = <<>>
    /\ final_videos = {}

IdleConc ==
    /\ instKind = <<>>
    /\ instPc = <<>>
    /\ tmpOwner = <<>>

IdleAsm ==
    /\ clips = <<>>
    /\ duration = 0
    /\ asmPc = "idle"
    /\ temp_seconds = -1
    /\ output_seconds = -1

IdleTitle ==
    /\ title_entries = <<>>
    /\ for_filename = FALSE
    /\ full_title = <<>>
    /\ titlePc = "idle"

ReturnPlaceholder ==
    /\ audioPc = "start"
    /\ raw_timestamps = <<>>
    /\ processed_timestamps' = <<[Folder |-> "luffy", starttime |-> 0, endtime |-> audio_duration]>>
    /\ audioPc' = "returned"
    /\ UNCHANGED <<raw_timestamps, audio_duration, segVars, finVars, concVars, asmVars, titleVars, cwd>>

\* if not raw_timestamps: return []
ReturnEmpty ==
    /\ audioPc = "start"
    /\ raw_timestamps = <<>>
    /\ processed_timestamps' = <<>>
    /\ audioPc' = "returned"
    /\ UNCHANGED <<raw_timestamps, audio_duration, segVars, finVars, concVars, asmVars, titleVars, cwd>>

\* force the first start to 0, compute the end times, return the list
DeriveSegments ==
    /\ audioPc = "start"
    /\ raw_timestamps # <<>>
    /\ processed_timestamps' = CalculateEndTimes(ForceFirst(raw_timestamps), audio_duration)
    /\ audioPc' = "returned"
    /\ UNCHANGED <<raw_timestamps, audio_duration, segVars, finVars, concVars, asmVars, titleVars, cwd>>

InitAudio ==
    /\ raw_timestamps \in EventLists
    /\ audio_duration \in Times
    /\ processed_timestamps = <<>>
    /\ audioPc = "start"
    /\ IdleSegments
    /\ IdleFinal
    /\ IdleConc
    /\ IdleAsm
    /\ IdleTitle
    /\ cwd = {}

NextAudio ==
    \/ ReturnEmpty
    \/ DeriveSegments

SpecAudio == InitAudio /\ [][NextAudio]_vars

-----------------------------------------------------------------------------
\* Claims about the Segment Deriver (checked under SpecAudio)

LastStart == ForceFirst(raw_timestamps)[Len(raw_timestamps)].starttime

Derived == audioPc = "returned" /\ raw_timestamps # <<>>

\* C1: for an ordered event list and a duration not below the last event's
\* start, the returned segments are contiguous (each endtime is the next
\* starttime) and the last endtime is the duration.
C1_Contiguous ==
    (Derived /\ audio_duration >= LastStart) =>
        /\ \A i \in 1..(Len(processed_timestamps) - 1) :
              processed_timestamps[i].endtime = processed_timestamps[i + 1].starttime
        /\ processed_timestamps[Len(processed_timestamps)].endtime = audio_duration

C1_Witness ==
    /\ Derived
    /\ Len(processed_timestamps) = 3
    /\ processed_timestamps[2].starttime < processed_timestamps[3].starttime
    /\ processed_timestamps[3].starttime < audio_duration

\* C2: a duration below the last event's start is rejected with a
\* DurationError: process_audio_file does not return a segment list.
C2_DurationRejected ==
    (raw_timestamps # <<>> /\ audio_duration < LastStart) => audioPc # "returned"

\* C3: every returned segment has starttime < endtime, for ordered events
\* and a duration not below the last event's start.
C3_PositiveLength ==
    (Derived /\ audio_duration >= LastStart) =>
        \A i \in 1..Len(processed_timestamps) :
            processed_timestamps[i].starttime < processed_timestamps[i].endtime

-----------------------------------------------------------------------------
\* draft/segments.py

\* Recording identities, as the '_'-separated parts of the file's base name
Recordings == << <<"ep1">>, <<"ep10">> >>

\* A timeline document as audio.py saves it: contiguous segments from 0
Timeline(kws) ==
    [i \in 1..Len(kws) |-> [Folder |-> kws[i], starttime |-> i - 1, endtime |-> i]]

Timelines == {Timeline(kws) : kws \in UNION {[1..n -> Keywords] : n \in 0..MaxSegs}}

\* the listings of temp_transcriptions: none, one or both recordings
JsonListings ==
    UNION {[1..n -> [base : {Recordings[1], Recordings[2]}, data : Timelines]] : n \in 0..2}

\* temporary file names of create_segment
list_file == "temp_clips.txt"
temp_output == "temp_concat.mp4"

\* get_clips_for_keyword: the clips, or the exception it raises
GetClipsForKeyword(keyword) ==
    CASE clipsDir[keyword] = "missing" -> "FileNotFoundError"
      [] clipsDir[keyword] = "empty" -> "ValueError"
      [] OTHER -> "clips"

Raises(result) == result \in {"FileNotFoundError", "ValueError"}

UnitNameByCount(base_name, i, keyword) ==
    base_name \o <<"segment",
                  ToString(Cardinality({u \in segmentsDir : SubSeq(u, 1, Len(base_name)) = base_name})),
                  keyword>>

\* f"{base_name}_segment_{i}_{keyword}.mp4", as its '_'-separated parts
UnitName(base_name, i, keyword) == base_name \o <<"segment", ToString(i), keyword>>

CurrentFile == json_files[fileIdx]
CurrentSegment == CurrentFile.data[segIdx + 1]

\* main: list the json files, return when there is none
MainListJson ==
    /\ segMain = "start"
    /\ segMain' = IF json_files = <<>> THEN "nofiles" ELSE "loop"
    /\ fileIdx' = IF json_files = <<>> THEN 0 ELSE 1
    /\ segIdx' = 0
    /\ UNCHANGED <<audioVars, concVars, asmVars, titleVars, finVars, json_files, clipsDir, csPc, segmentsDir, cwd>>

\* process_segments returned: main goes to the next json file, or ends
NextJsonFile ==
    /\ segMain = "loop" /\ csPc = "idle"
    /\ segIdx = Len(CurrentFile.data)
    /\ IF fileIdx < Len(json_files)
          THEN fileIdx' = fileIdx + 1 /\ segMain' = "loop"
          ELSE fileIdx' = fileIdx /\ segMain' = "done"
    /\ segIdx' = IF fileIdx < Len(json_files) THEN 0 ELSE segIdx
    /\ UNCHANGED <<audioVars, concVars, asmVars, titleVars, finVars, json_files, clipsDir, csPc, segmentsDir, cwd>>

\* process_segments: get_clips_for_keyword raised, the segment is skipped
SkipSegment ==
    /\ segMain = "loop" /\ csPc = "idle"
    /\ segIdx < Len(CurrentFile.data)
    /\ Raises(GetClipsForKeyword(CurrentSegment.Folder))
    /\ segIdx' = segIdx + 1
    /\ UNCHANGED <<audioVars, concVars, asmVars, titleVars, finVars, json_files, clipsDir, segMain, fileIdx, csPc, segmentsDir, cwd>>

\* create_segment: write the concat list file
WriteListFile ==
    /\ segMain = "loop" /\ csPc = "idle"
    /\ segIdx < Len(CurrentFile.data)
    /\ ~Raises(GetClipsForKeyword(CurrentSegment.Folder))
    /\ cwd' = cwd \cup {list_file}
    /\ csPc' = "concat"
    /\ UNCHANGED <<audioVars, concVars, asmVars, titleVars, finVars, json_files, clipsDir, segMain, fileIdx, segIdx, segmentsDir>>

\* create_segment: the concat invocation; a non-zero exit raises through
\* process_segments to main's except
ConcatClips ==
    /\ csPc = "concat"
    /\ \E ok \in BOOLEAN :
         IF ok
            THEN /\ cwd' = cwd \cup {temp_output}
                 /\ csPc' = "trim"
                 /\ UNCHANGED segMain
            ELSE /\ csPc' = "idle"
                 /\ segMain' = "error"
                 /\ UNCHANGED cwd
    /\ UNCHANGED <<audioVars, concVars, asmVars, titleVars, finVars, json_files, clipsDir, fileIdx, segIdx, segmentsDir>>

\* create_segment: the trim invocation, then the cleanup and the return;
\* a non-zero exit raises before the cleanup
TrimSegment ==
    /\ csPc = "trim"
    /\ \E ok \in BOOLEAN :
         IF ok
            THEN /\ segmentsDir' = segmentsDir \cup
                        {UnitName(CurrentFile.base, segIdx, CurrentSegment.Folder)}
                 /\ cwd' = cwd \ {list_file, temp_output}
                 /\ segIdx' = segIdx + 1
                 /\ UNCHANGED segMain
            ELSE /\ segMain' = "error"
                 /\ UNCHANGED <<segmentsDir, cwd, segIdx>>
    /\ csPc' = "idle"
    /\ UNCHANGED <<audioVars, concVars, asmVars, titleVars, finVars, json_files, clipsDir, fileIdx>>

DistinctBases(files) == \A i, j \in 1..Len(files) : i # j => files[i].base # files[j].base

InitSegments ==
    /\ IdleAudio
    /\ IdleFinal
    /\ IdleConc
    /\ IdleAsm
    /\ IdleTitle
    /\ json_files \in {l \in JsonListings : DistinctBases(l)}
    /\ clipsDir \in [Keywords -> {"missing", "empty", "clips"}]
    /\ segMain = "start"
    /\ fileIdx = 0
    /\ segIdx = 0
    /\ csPc = "idle"
    /\ segmentsDir = {}
    /\ cwd = {}

NextSegments ==
    \/ MainListJson
    \/ NextJsonFile
    \/ SkipSegment
    \/ WriteListFile
    \/ ConcatClips
    \/ TrimSegment

SpecSegments == InitSegments /\ [][NextSegments]_vars

-----------------------------------------------------------------------------
\* Claims about segment assembly (checked under SpecSegments)

SegmentsOf(f) == 0..(Len(json_files[f].data) - 1)
KeywordAt(f, i) == json_files[f].data[i + 1].Folder
PoolAvailable(f, i) == clipsDir[KeywordAt(f, i)] = "clips"
Unit(f, i) == json_files[f].base \o <<"segment", ToString(i), KeywordAt(f, i)>>

\* the segments process_segments has dealt with (skipped or assembled)
Handled(f, i) == f < fileIdx \/ (f = fileIdx /\ i < segIdx)

\* C7: an engine failure in create_segment skips only that segment: once main
\* has ended, every other segment with a clip pool has its unit in segments/.
C7_OnlyFailedSegmentSkipped ==
    segMain = "error" =>
        \A f \in 1..Len(json_files) : \A i \in SegmentsOf(f) :
            (PoolAvailable(f, i) /\ <<f, i>> # <<fileIdx, segIdx>>) => Unit(f, i) \in segmentsDir

\* C8: a missing or empty clip pool skips only its own segment: no unit is
\* produced for it, it never ends main with an error, and every handled
\* segment with a pool has its unit under its own timeline index.
C8_EmptyPoolSkipsOnlyThatSegment ==
    /\ \A f \in 1..Len(json_files) : \A i \in SegmentsOf(f) :
          Handled(f, i) => (Unit(f, i) \in segmentsDir <=> PoolAvailable(f, i))
    /\ segmentsDir \subseteq
          UNION {{Unit(f, i) : i \in SegmentsOf(f)} : f \in 1..Len(json_files)}
    /\ segMain = "error" => PoolAvailable(fileIdx, segIdx)

C8_Witness ==
    /\ segMain = "done"
    /\ \E f \in 1..Len(json_files) :
          /\ Len(json_files[f].data) = 2
          /\ ~PoolAvailable(f, 0)
          /\ Unit(f, 1) \in segmentsDir

\* C9: no temporary file of create_segment exists once it has returned or raised.
C9_TempReleased ==
    csPc = "idle" => cwd \cap {list_file, temp_output} = {}

-----------------------------------------------------------------------------
\* final.py

\* temporary file names of process_video_group
concat_list == "temp_concat.txt"
video_no_audio == "temp_video_no_audio.mp4"
original_audio == "temp_original_audio.wav"
bg_music == "temp_bg_music.wav"
mixed_audio == "temp_mixed_audio.wav"

\* The characters of a name part (file names are compared by prefix)
Chars(part) ==
    CASE part = "ep1" -> <<"e", "p", "1">>
      [] part = "ep10" -> <<"e", "p", "1", "0">>
      [] OTHER -> <<part>>

RECURSIVE JoinChars(_)
\* "_".join(parts), as characters
JoinChars(parts) ==
    IF parts = <<>> THEN <<>>
    ELSE IF Len(parts) = 1 THEN Chars(parts[1])
    ELSE Chars(parts[1]) \o <<"_">> \o JoinChars(Tail(parts))

\* str.startswith
StartsWith(name, prefix) ==
    Len(prefix) <= Len(name) /\ SubSeq(name, 1, Len(prefix)) = prefix

\* f.split('_segment_')[0]: the parts before the first inner "segment" part
BaseName(f) ==
    LET at == {k \in 2..(Len(f) - 1) : f[k] = "segment"}
    IN  IF at = {} THEN f
        ELSE SubSeq(f, 1, (CHOOSE k \in at : \A j \in at : k <= j) - 1)

RECURSIVE GroupFrom(_, _)
\* the loop of group_segments: a dict keeps the order in which its keys were added
GroupFrom(listing, groups) ==
    IF listing = <<>> THEN groups
    ELSE LET f == Head(listing)
             base == BaseName(f)
             at == {g \in 1..Len(groups) : groups[g].base = base}
         IN  IF at = {}
                THEN GroupFrom(Tail(listing), Append(groups, [base |-> base, files |-> <<f>>]))
                ELSE GroupFrom(Tail(listing),
                        [g \in 1..Len(groups) |->
                            IF g \in at
                               THEN [groups[g] EXCEPT !.files = Append(@, f)]
                               ELSE groups[g]])

GroupSegments(listing) == GroupFrom(listing, <<>>)

\* get_audio_file: the first listed audio file whose name starts with the base
GetAudioFile(segment_base) ==
    LET audio_base == BaseName(segment_base)
        hits == {k \in 1..Len(audioDir) :
                    StartsWith(JoinChars(audioDir[k]) \o <<".", "m", "p", "4">>,
                               JoinChars(audio_base))}
    IN  IF hits = {} THEN "FileNotFoundError"
        ELSE audioDir[CHOOSE k \in hits : \A j \in hits : k <= j]

\* get_segment_entries: parts[3] of every name with at least 4 parts
GetSegmentEntries(segment_group) ==
    LET long == SelectSeq(segment_group, LAMBDA seg : Len(seg) >= 4)
    IN  [k \in 1..Len(long) |-> [Folder |-> long[k][4]]]

RECURSIVE SeenFolders(_, _)
\* create_title: the distinct folders in first-seen order
SeenFolders(entries, seen) ==
    IF entries = <<>> THEN seen
    ELSE LET folder == Head(entries).Folder
         IN  SeenFolders(Tail(entries),
                IF \E k \in 1..Len(seen) : seen[k] = folder THEN seen ELSE Append(seen, folder))

\* create_title and the safe file name: both are one-to-one in the seen
\* folders, which stand for the title and the output file name
OutputFile(segment_group) == SeenFolders(GetSegmentEntries(segment_group), <<>>)

\* int(part): the number a part is the decimal form of, if it is one
IsInt(part) == \E n \in 0..MaxSegs : ToString(n) = part
IntOf(part) == CHOOSE n \in 0..MaxSegs : ToString(n) = part

\* int(x.split('_')[2])
SortKey(f) == IntOf(f[3])
SortKeysAreInts(segment_group) ==
    \A k \in 1..Len(segment_group) :
        Len(segment_group[k]) >= 3 /\ IsInt(segment_group[k][3])

RECURSIVE InsertByKey(_, _)
InsertByKey(sorted, f) ==
    IF sorted = <<>> THEN <<f>>
    ELSE IF SortKey(sorted[Len(sorted)]) <= SortKey(f) THEN Append(sorted, f)
    ELSE Append(InsertByKey(SubSeq(sorted, 1, Len(sorted) - 1), f), sorted[Len(sorted)])

RECURSIVE SortedFrom(_, _)
SortedFrom(todo, sorted) ==
    IF todo = <<>> THEN sorted ELSE SortedFrom(Tail(todo), InsertByKey(sorted, Head(todo)))

\* sorted(segment_group, key=lambda x: int(x.split('_')[2])), a stable sort
SortedSegments(segment_group) == SortedFrom(segment_group, <<>>)

\* the engine invocations of process_video_group, in the order of the code
PipelineSteps == <<"concat", "narration", "music", "merge", "mux">>

StepAfterSkippingOne(step) ==
    CASE step = "concat" -> "music"
      [] step = "narration" -> "music"
      [] step = "music" -> "merge"
      [] step = "merge" -> "mux"
      [] OTHER -> "idle"

\* the invocation that follows a successful one
StepAfter(step) ==
    CASE step = "concat" -> "narration"
      [] step = "narration" -> "music"
      [] step = "music" -> "merge"
      [] step = "merge" -> "mux"
      [] OTHER -> "idle"

\* the temporary file an invocation writes (the mux writes the output file)
StepOutput(step) ==
    CASE step = "concat" -> {video_no_audio}
      [] step = "narration" -> {original_audio}
      [] step = "music" -> {bg_music}
      [] step = "merge" -> {mixed_audio}
      [] OTHER -> {}

TempFiles == {concat_list, video_no_audio, original_audio, bg_music, mixed_audio}

CurrentGroup == segment_groups[groupIdx]


\* main: group_segments, return when there is no segment
MainGroupSegments ==
    /\ finMain = "start"
    /\ segment_groups' = GroupSegments(segListing)
    /\ finMain' = IF segment_groups' = <<>> THEN "nosegments" ELSE "loop"
    /\ groupIdx' = IF segment_groups' = <<>> THEN 0 ELSE 1
    /\ UNCHANGED <<audioVars, concVars, asmVars, titleVars, segVars, cwd, segListing, audioDir, pvgPc, segments,
                   audio_file, engineLog, final_videos>>

\* process_video_group up to the first invocation: title, sort, get_audio_file,
\* write the concat list; an exception raises to main's except
BeginGroup ==
    /\ finMain = "loop" /\ pvgPc = "idle"
    /\ groupIdx <= Len(segment_groups)
    /\ LET segment_group == CurrentGroup.files
           base_name == BaseName(segment_group[1])
       IN  IF ~SortKeysAreInts(segment_group) \/ GetAudioFile(base_name) = "FileNotFoundError"
              THEN /\ finMain' = "error"
                   /\ UNCHANGED <<pvgPc, segments, audio_file, cwd>>
              ELSE /\ segments' = SortedSegments(segment_group)
                   /\ audio_file' = GetAudioFile(base_name)
                   /\ cwd' = cwd \cup {concat_list}
                   /\ pvgPc' = PipelineSteps[1]
                   /\ UNCHANGED finMain
    /\ UNCHANGED <<audioVars, concVars, asmVars, titleVars, segVars, segListing, audioDir, segment_groups, groupIdx,
                   engineLog, final_videos>>

\* subprocess.run(..., check=True) of one of the first four invocations
EngineStep(step) ==
    /\ finMain = "loop" /\ pvgPc = step
    /\ \E ok \in BOOLEAN :
         /\ engineLog' = Append(engineLog, [group |-> CurrentGroup.base, step |-> step, ok |-> ok])
         /\ IF ok
               THEN /\ cwd' = cwd \cup StepOutput(step)
                    /\ pvgPc' = StepAfter(step)
                    /\ UNCHANGED finMain
               ELSE /\ finMain' = "error"
                    /\ pvgPc' = "idle"
                    /\ UNCHANGED cwd
    /\ UNCHANGED <<audioVars, concVars, asmVars, titleVars, segVars, segListing, audioDir, segment_groups, groupIdx,
                   segments, audio_file, final_videos>>

ConcatSegments == EngineStep("concat")
ExtractNarration == EngineStep("narration")
AttenuateMusic == EngineStep("music")
MergeAudio == EngineStep("merge")

\* the mux invocation (run without -y: it may also fail on an existing output
\* file), then the cleanup and the return to main's loop
MuxFinal ==
    /\ finMain = "loop" /\ pvgPc = "mux"
    /\ \E ok \in BOOLEAN :
         /\ engineLog' = Append(engineLog, [group |-> CurrentGroup.base, step |-> "mux", ok |-> ok])
         /\ IF ok
               THEN /\ final_videos' =
                          {v \in final_videos : v.file # OutputFile(CurrentGroup.files)}
                          \cup {[file |-> OutputFile(CurrentGroup.files), by |-> CurrentGroup.base]}
                    /\ cwd' = cwd \ TempFiles
                    /\ groupIdx' = groupIdx + 1
                    /\ UNCHANGED finMain
               ELSE /\ finMain' = "error"
                    /\ UNCHANGED <<final_videos, cwd, groupIdx>>
    /\ pvgPc' = "idle"
    /\ UNCHANGED <<audioVars, concVars, asmVars, titleVars, segVars, segListing, audioDir, segment_groups, segments,
                   audio_file>>

\* main: every group was processed
MainAllProcessed ==
    /\ finMain = "loop" /\ pvgPc = "idle"
    /\ groupIdx > Len(segment_groups)
    /\ finMain' = "done"
    /\ UNCHANGED <<audioVars, concVars, asmVars, titleVars, segVars, cwd, segListing, audioDir, segment_groups, groupIdx,
                   pvgPc, segments, audio_file, engineLog, final_videos>>

\* the orders in which a set of files can be listed
Listings(S) ==
    {q \in [1..Cardinality(S) -> S] : \A i, j \in 1..Cardinality(S) : i # j => q[i] # q[j]}

\* the units segments.py can have left for one recording: at most one per
\* timeline index, some indices skipped
UnitSets(base) ==
    UNION {{{UnitName(base, i, kws[i + 1]) : i \in present} : present \in SUBSET (0..(Len(kws) - 1))} :
              kws \in UNION {[1..n -> Keywords] : n \in 0..MaxSegs}}

Blocks(base) == UNION {Listings(S) : S \in UnitSets(base)}

\* listings of segments/: the units of each recording in any order
SegListings ==
    {a \o b : a \in Blocks(Recordings[1]), b \in Blocks(Recordings[2])}
        \cup {b \o a : a \in Blocks(Recordings[1]), b \in Blocks(Recordings[2])}

AudioListings == UNION {Listings(S) : S \in SUBSET {Recordings[1], Recordings[2]}}

InitFinal ==
    /\ IdleAudio
    /\ IdleSegments
    /\ IdleConc
    /\ IdleAsm
    /\ IdleTitle
    /\ cwd = {}
    /\ segListing \in SegListings
    /\ audioDir \in AudioListings
    /\ segment_groups = <<>>
    /\ finMain = "start"
    /\ groupIdx = 0
    /\ pvgPc = "idle"
    /\ segments = <<>>
    /\ audio_file = <<>>
    /\ engineLog = <<>>
    /\ final_videos = {}

NextFinal ==
    \/ MainGroupSegments
    \/ BeginGroup
    \/ ConcatSegments
    \/ ExtractNarration
    \/ AttenuateMusic
    \/ MergeAudio
    \/ MuxFinal
    \/ MainAllProcessed

SpecFinal == InitFinal /\ [][NextFinal]_vars

-----------------------------------------------------------------------------
\* Claims about composition (checked under SpecFinal)

GroupBases == {Recordings[1], Recordings[2]}
LogOf(base) == SelectSeq(engineLog, LAMBDA e : e.group = base)
Composed(base) == \E k \in 1..Len(engineLog) :
    engineLog[k] = [group |-> base, step |-> "mux", ok |-> TRUE]
HasArtifact(base) == \E v \in final_videos : v.by = base

\* C4: the invocations of one group run in the order concat, narration,
\* music, merge, mux, each only after the previous one succeeded; after a
\* failure no later one runs and the group has no final artifact.
C4_FixedStepOrder ==
    \A base \in GroupBases :
        LET log == LogOf(base)
        IN  /\ Len(log) <= Len(PipelineSteps)
            /\ \A k \in 1..Len(log) : log[k].step = PipelineSteps[k]
            /\ \A k \in 1..(Len(log) - 1) : log[k].ok
            /\ HasArtifact(base) => (Len(log) = Len(PipelineSteps) /\ log[Len(log)].ok)

C4_Witness ==
    /\ finMain = "error"
    /\ \E done, failed \in GroupBases :
          /\ HasArtifact(done)
          /\ Len(LogOf(failed)) = 3
          /\ ~LogOf(failed)[3].ok
          /\ ~HasArtifact(failed)

\* C5: when the composition of one group fails, every other group of the run
\* (with its narration audio present) is still composed.
C5_OtherGroupsComposed ==
    finMain = "error" =>
        \A g \in 1..Len(segment_groups) :
            (g # groupIdx /\ GetAudioFile(segment_groups[g].base) # "FileNotFoundError")
                => Composed(segment_groups[g].base)

\* C6: no temporary file of a composition exists once process_video_group
\* has returned or raised.
C6_TempReleased ==
    pvgPc = "idle" => cwd \cap TempFiles = {}

-----------------------------------------------------------------------------
\* Two pipeline instances (two process_video_group calls, two create_segment
\* calls, or one of each) running at once in the same working directory:
\* the steps of the code above, interleaved, on the temporary files they name.

Instances == {1, 2}

\* the steps of an instance, in the order of the code
StepsOf(kind) ==
    IF kind = "compose"
       THEN <<"write_list">> \o PipelineSteps \o <<"cleanup">>
       ELSE <<"write_list", "concat", "trim", "cleanup">>

\* the temporary files a step reads
StepInputs(kind, step) ==
    IF kind = "compose"
       THEN CASE step = "concat" -> {concat_list}
              [] step = "merge" -> {original_audio, bg_music}
              [] step = "mux" -> {video_no_audio, mixed_audio}
              [] OTHER -> {}
       ELSE CASE step = "concat" -> {list_file}
              [] step = "trim" -> {temp_output}
              [] OTHER -> {}

\* the temporary files a step writes
StepOutputs(kind, step) ==
    IF kind = "compose"
       THEN IF step = "write_list" THEN {concat_list} ELSE StepOutput(step)
       ELSE CASE step = "write_list" -> {list_file}
              [] step = "concat" -> {temp_output}
              [] OTHER -> {}

AllTempFiles == TempFiles \cup {list_file, temp_output}

PositionOf(i) == CHOOSE k \in 1..Len(StepsOf(instKind[i])) : StepsOf(instKind[i])[k] = instPc[i]
Active(i) == instPc[i] \notin {"done", "failed"}
StepFollowing(i) == StepsOf(instKind[i])[PositionOf(i) + 1]

\* open(list, 'w'): write the concat list
ConcWriteList(i) ==
    /\ instPc[i] = "write_list"
    /\ tmpOwner' = [n \in AllTempFiles |->
                       IF n \in StepOutputs(instKind[i], "write_list") THEN i ELSE tmpOwner[n]]
    /\ instPc' = [instPc EXCEPT ![i] = StepFollowing(i)]
    /\ UNCHANGED <<audioVars, asmVars, titleVars, segVars, finVars, cwd, instKind>>

\* one engine invocation: it fails when an input file is gone, and may fail anyway
ConcEngine(i) ==
    /\ Active(i) /\ instPc[i] \notin {"write_list", "cleanup"}
    /\ \E ok \in BOOLEAN :
         /\ ok => \A n \in StepInputs(instKind[i], instPc[i]) : tmpOwner[n] # 0
         /\ IF ok
               THEN /\ tmpOwner' = [n \in AllTempFiles |->
                                       IF n \in StepOutputs(instKind[i], instPc[i])
                                          THEN i ELSE tmpOwner[n]]
                    /\ instPc' = [instPc EXCEPT ![i] = StepFollowing(i)]
               ELSE /\ instPc' = [instPc EXCEPT ![i] = "failed"]
                    /\ UNCHANGED tmpOwner
    /\ UNCHANGED <<audioVars, asmVars, titleVars, segVars, finVars, cwd, instKind>>

\* the cleanup: process_video_group removes the files that exist;
\* create_segment removes list_file then temp_output, raising on a missing one
ConcCleanup(i) ==
    /\ instPc[i] = "cleanup"
    /\ IF instKind[i] = "compose"
          THEN /\ tmpOwner' = [n \in AllTempFiles |-> IF n \in TempFiles THEN 0 ELSE tmpOwner[n]]
               /\ instPc' = [instPc EXCEPT ![i] = "done"]
          ELSE IF tmpOwner[list_file] = 0
                  THEN /\ instPc' = [instPc EXCEPT ![i] = "failed"]
                       /\ UNCHANGED tmpOwner
                  ELSE /\ tmpOwner' = [n \in AllTempFiles |->
                                          IF n \in {list_file, temp_output} THEN 0 ELSE tmpOwner[n]]
                       /\ instPc' = [instPc EXCEPT ![i] =
                                        IF tmpOwner[temp_output] = 0 THEN "failed" ELSE "done"]
    /\ UNCHANGED <<audioVars, asmVars, titleVars, segVars, finVars, cwd, instKind>>

InitConc ==
    /\ IdleAudio
    /\ IdleAsm
    /\ IdleTitle
    /\ IdleSegments
    /\ IdleFinal
    /\ cwd = {}
    /\ instKind \in [Instances -> {"compose", "assemble"}]
    /\ instPc = [i \in Instances |-> "write_list"]
    /\ tmpOwner = [n \in AllTempFiles |-> 0]

NextConc ==
    \E i \in Instances :
        \/ ConcWriteList(i)
        \/ ConcEngine(i)
        \/ ConcCleanup(i)

SpecConc == InitConc /\ [][NextConc]_vars

\* the temporary files an instance has written and not yet cleaned up
WrittenBy(i) ==
    IF ~Active(i) THEN {}
    ELSE UNION {StepOutputs(instKind[i], StepsOf(instKind[i])[k]) : k \in 1..(PositionOf(i) - 1)}

\* C10: concurrent instances use private temporary names: a temporary file
\* an instance wrote is never overwritten or deleted by the other instance
\* (and so never read by the wrong one) while its writer is still running.
C10_PrivateTempNamespace ==
    \A i \in Instances : \A n \in WrittenBy(i) : tmpOwner[n] = i

-----------------------------------------------------------------------------
\* final.py on one recording group whose units arrive in any order: the
\* recording's base name may hold '_' itself, and segments/ may still hold
\* units of an earlier run (two units with the same timeline index).

GroupIds == {<<"ep1">>, <<"my", "ep">>, <<"show", "s1", "2">>}

\* the units one recording can have in segments/: at most MaxSegs of them
UnitChoices(base) ==
    {S \in SUBSET {UnitName(base, i, kw) : i \in 0..(MaxSegs - 1), kw \in Keywords} :
        Cardinality(S) <= MaxSegs}

InitOrder ==
    /\ IdleAudio
    /\ IdleSegments
    /\ IdleConc
    /\ IdleAsm
    /\ IdleTitle
    /\ cwd = {}
    /\ \E base \in GroupIds :
          /\ segListing \in UNION {Listings(S) : S \in UnitChoices(base)}
          /\ audioDir = <<base>>
    /\ segment_groups = <<>>
    /\ finMain = "start"
    /\ groupIdx = 0
    /\ pvgPc = "idle"
    /\ segments = <<>>
    /\ audio_file = <<>>
    /\ engineLog = <<>>
    /\ final_videos = {}

SpecOrder == InitOrder /\ [][NextFinal]_vars

\* the segmentIndex a unit's name encodes: the part after the "segment" marker
EncodedIndex(f) == IntOf(f[Len(BaseName(f)) + 2])

HasDuplicateIndex(files) ==
    \E i, j \in 1..Len(files) : i # j /\ EncodedIndex(files[i]) = EncodedIndex(files[j])

\* C11: whatever the arrival order and the recordingId, the units written to
\* the concat list are in ascending order of the segmentIndex in their names.
C11_ConcatInIndexOrder ==
    pvgPc # "idle" =>
        \A k \in 1..(Len(segments) - 1) :
            EncodedIndex(segments[k]) <= EncodedIndex(segments[k + 1])

\* C12: a group with two units of the same segmentIndex fails fast: no
\* engine step is run for it and it gets no final artifact.
C12_DuplicateIndexRejected ==
    (segment_groups # <<>> /\ groupIdx \in 1..Len(segment_groups)
        /\ HasDuplicateIndex(CurrentGroup.files))
        => (pvgPc = "idle" /\ engineLog = <<>> /\ final_videos = {})

-----------------------------------------------------------------------------
\* More claims about composition (checked under SpecFinal)

\* C13: after a run that composed every group, there is one final artifact
\* per group: as many output files as groups, each group's own.
C13_OneArtifactPerGroup ==
    finMain = "done" =>
        /\ Cardinality(final_videos) = Len(segment_groups)
        /\ \A g \in 1..Len(segment_groups) : HasArtifact(segment_groups[g].base)

\* C19: the narration audio of a group is the recording whose name is the
\* group's recordingId, never another recording's.
C19_NarrationOfSameRecording ==
    pvgPc # "idle" => audio_file = CurrentGroup.base

\* the keyword a unit's name encodes: the part after the segmentIndex
EncodedKeyword(f) == f[Len(BaseName(f)) + 3]

FilesOf(base) ==
    LET g == CHOOSE g \in 1..Len(segment_groups) : segment_groups[g].base = base
    IN  segment_groups[g].files

\* the timeline index at which a keyword first appears in a group
FirstIndex(files, kw) ==
    LET at == {EncodedIndex(files[k]) : k \in {k \in 1..Len(files) : EncodedKeyword(files[k]) = kw}}
    IN  CHOOSE i \in at : \A j \in at : i <= j

\* C20: the main phrase of a final artifact's title lists the group's
\* keywords in the order of their first appearance in the timeline.
C20_TitleInTimelineOrder ==
    \A v \in final_videos :
        \A i, j \in 1..Len(v.file) :
            i < j => FirstIndex(FilesOf(v.by), v.file[i]) < FirstIndex(FilesOf(v.by), v.file[j])

-----------------------------------------------------------------------------
\* More claims about the Segment Deriver (checked under SpecAudio)

\* C17: for a non-empty event list the first returned segment starts at 0,
\* whatever the first event's timestamp.
C17_FirstStartsAtZero ==
    Derived => processed_timestamps[1].starttime = 0

C17_Witness ==
    /\ Derived
    /\ raw_timestamps[1].starttime > 0
    /\ processed_timestamps[1].starttime = 0

\* C18: one segment per keyword event, in the input order and with the
\* event's keyword: same length as the event list, nothing merged.
C18_OneSegmentPerEvent ==
    audioPc = "returned" =>
        /\ Len(processed_timestamps) = Len(raw_timestamps)
        /\ \A i \in 1..Len(raw_timestamps) :
              /\ processed_timestamps[i].Folder = raw_timestamps[i].Folder
              /\ i > 1 => processed_timestamps[i].starttime = raw_timestamps[i].starttime

C18_Witness ==
    /\ Derived
    /\ Len(processed_timestamps) = 3
    /\ raw_timestamps[1].Folder = raw_timestamps[2].Folder
    /\ raw_timestamps[2].Folder # raw_timestamps[3].Folder
    /\ processed_timestamps[2].Folder = raw_timestamps[2].Folder

-----------------------------------------------------------------------------
\* draft/segments.py: one create_segment call and the seconds of its media

RECURSIVE TotalSeconds(_)
\* the seconds of the concatenation of the clips
TotalSeconds(cs) == IF cs = <<>> THEN 0 ELSE Head(cs) + TotalSeconds(Tail(cs))

\* ffmpeg -i temp_output -t duration -c copy: the output ends at the target,
\* or where the input ends when that is earlier
TrimmedSeconds(total, target) == IF total < target THEN total ELSE target

\* write the concat list file
AsmWriteList ==
    /\ asmPc = "start"
    /\ cwd' = cwd \cup {list_file}
    /\ asmPc' = "concat"
    /\ UNCHANGED <<audioVars, segVars, finVars, concVars, titleVars, clips, duration,
                   temp_seconds, output_seconds>>

\* the concat invocation: every clip in order, stream-copied
AsmConcat ==
    /\ asmPc = "concat"
    /\ \E ok \in BOOLEAN :
         IF ok
            THEN /\ temp_seconds' = TotalSeconds(clips)
                 /\ cwd' = cwd \cup {temp_output}
                 /\ asmPc' = "trim"
            ELSE /\ asmPc' = "raised"
                 /\ UNCHANGED <<temp_seconds, cwd>>
    /\ UNCHANGED <<audioVars, segVars, finVars, concVars, titleVars, clips, duration,
                   output_seconds>>

\* the trim invocation, then the cleanup and the return
AsmTrim ==
    /\ asmPc = "trim"
    /\ \E ok \in BOOLEAN :
         IF ok
            THEN /\ output_seconds' = TrimmedSeconds(temp_seconds, duration)
                 /\ cwd' = cwd \ {list_file, temp_output}
                 /\ temp_seconds' = -1
                 /\ asmPc' = "returned"
            ELSE /\ asmPc' = "raised"
                 /\ UNCHANGED <<output_seconds, cwd, temp_seconds>>
    /\ UNCHANGED <<audioVars, segVars, finVars, concVars, titleVars, clips, duration>>

InitAssemble ==
    /\ IdleAudio
    /\ IdleSegments
    /\ IdleFinal
    /\ IdleConc
    /\ IdleTitle
    /\ cwd = {}
    /\ clips \in UNION {[1..n -> 1..MaxTime] : n \in 1..MaxClips}
    /\ duration \in 1..MaxTime
    /\ asmPc = "start"
    /\ temp_seconds = -1
    /\ output_seconds = -1

NextAssemble ==
    \/ AsmWriteList
    \/ AsmConcat
    \/ AsmTrim

SpecAssemble == InitAssemble /\ [][NextAssemble]_vars

\* C14: when the clips together are shorter than the target duration,
\* create_segment fails (InsufficientClipDuration) and produces no unit.
C14_UnderSupplyRejected ==
    TotalSeconds(clips) < duration => (asmPc # "returned" /\ output_seconds = -1)

-----------------------------------------------------------------------------
\* ahmi.py: AnimeVideoNamer.create_title, strings as character sequences

MaxEntries == 3

\* the keywords of the entries: two with an association, one without
TitleKeywords == Keywords \cup {"zoro"}

\* the characters of a word
Spell(word) ==
    CASE word = "luffy" -> <<"l", "u", "f", "f", "y">>
      [] word = "onepiece" -> <<"o", "n", "e", "p", "i", "e", "c", "e">>
      [] word = "naruto" -> <<"n", "a", "r", "u", "t", "o">>
      [] word = "narutoshippuden" -> <<"n", "a", "r", "u", "t", "o", "s", "h", "i", "p", "p", "u", "d", "e", "n">>
      [] word = "saitama" -> <<"s", "a", "i", "t", "a", "m", "a">>
      [] word = "opm" -> <<"o", "p", "m">>
      [] word = "goku" -> <<"g", "o", "k", "u">>
      [] word = "dbz" -> <<"d", "b", "z">>
      [] word = "ichigo" -> <<"i", "c", "h", "i", "g", "o">>
      [] word = "bleach" -> <<"b", "l", "e", "a", "c", "h">>
      [] word = "gojo" -> <<"g", "o", "j", "o">>
      [] word = "jjk" -> <<"j", "j", "k">>
      [] word = "madara" -> <<"m", "a", "d", "a", "r", "a">>
      [] word = "sukuna" -> <<"s", "u", "k", "u", "n", "a">>
      [] word = "kakashi" -> <<"k", "a", "k", "a", "s", "h", "i">>
      [] word = "vegeta" -> <<"v", "e", "g", "e", "t", "a">>
      [] word = "dragonball" -> <<"d", "r", "a", "g", "o", "n", "b", "a", "l", "l">>
      [] word = "animebattle" -> <<"a", "n", "i", "m", "e", "b", "a", "t", "t", "l", "e">>
      [] word = "zoro" -> <<"z", "o", "r", "o">>
      [] OTHER -> <<word>>

\* self.associations.get(folder), "" for None
Association(folder) ==
    CASE folder = "luffy" -> "onepiece"
      [] folder = "naruto" -> "narutoshippuden"
      [] folder = "saitama" -> "opm"
      [] folder = "goku" -> "dbz"
      [] folder = "ichigo" -> "bleach"
      [] folder = "gojo" -> "jjk"
      [] folder = "madara" -> "naruto"
      [] folder = "sukuna" -> "jjk"
      [] folder = "kakashi" -> "naruto"
      [] folder = "vegeta" -> "dragonball"
      [] OTHER -> ""

\* the characters used, in code point order
Alphabet == <<" ", "#", "_", "a", "b", "c", "d", "e", "f", "g", "h", "i", "j", "k", "l", "m", "n", "o", "p", "q", "r", "s", "t", "u", "v", "w", "x", "y", "z">>
Ord(c) == CHOOSE k \in 1..Len(Alphabet) : Alphabet[k] = c

RECURSIVE LexLess(_, _)
\* a < b for Python strings
LexLess(a, b) ==
    IF b = <<>> THEN FALSE
    ELSE IF a = <<>> THEN TRUE
    ELSE IF a[1] = b[1] THEN LexLess(Tail(a), Tail(b))
    ELSE Ord(a[1]) < Ord(b[1])

RECURSIVE SortedStrings(_)
\* sorted(a set of strings)
SortedStrings(S) ==
    IF S = {} THEN <<>>
    ELSE LET least == CHOOSE x \in S : \A y \in S : x = y \/ LexLess(x, y)
         IN  <<least>> \o SortedStrings(S \ {least})

RECURSIVE JoinStrings(_, _)
\* sep.join(strs)
JoinStrings(strs, sep) ==
    IF strs = <<>> THEN <<>>
    ELSE IF Len(strs) = 1 THEN strs[1]
    ELSE strs[1] \o sep \o JoinStrings(Tail(strs), sep)

\* s.replace(old, new) for single characters
ReplaceChar(str, old, new) == [k \in 1..Len(str) |-> IF str[k] = old THEN new ELSE str[k]]

\* the hashtags set: "#animebattle" and one string "#<assoc> #<folder>" per
\* seen folder with an association
Hashtags(seen) ==
    {<<"#">> \o Spell("animebattle")}
        \cup {<<"#">> \o Spell(Association(seen[k])) \o <<" ", "#">> \o Spell(seen[k]) :
                 k \in {k \in 1..Len(seen) : Association(seen[k]) # ""}}

\* create_title
CreateTitle(es, filename) ==
    LET seen_folders == SeenFolders(es, <<>>)
        title_main == JoinStrings([k \in 1..Len(seen_folders) |-> Spell(seen_folders[k])],
                                  <<" ", "v", "s", " ">>)
        hashtags_str == JoinStrings(SortedStrings(Hashtags(seen_folders)), <<" ">>)
        title == title_main \o <<" ">> \o hashtags_str
    IN  IF filename THEN ReplaceChar(title, "_", "#") ELSE title

CreateTitleCall ==
    /\ titlePc = "start"
    /\ full_title' = CreateTitle(title_entries, for_filename)
    /\ titlePc' = "returned"
    /\ UNCHANGED <<audioVars, segVars, finVars, concVars, asmVars, cwd, title_entries,
                   for_filename>>

InitTitle ==
    /\ IdleAudio
    /\ IdleSegments
    /\ IdleFinal
    /\ IdleConc
    /\ IdleAsm
    /\ cwd = {}
    /\ title_entries \in UNION {[1..n -> [Folder : TitleKeywords]] : n \in 0..MaxEntries}
    /\ for_filename \in BOOLEAN
    /\ full_title = <<>>
    /\ titlePc = "start"

NextTitle == CreateTitleCall

SpecTitle == InitTitle /\ [][NextTitle]_vars

\* the individual tags of the distinct keywords: #animebattle, and for each
\* keyword with a table entry its category tag and its keyword tag
IndividualTags ==
    LET seen == SeenFolders(title_entries, <<>>)
        known == {k \in 1..Len(seen) : Association(seen[k]) # ""}
    IN  {<<"#">> \o Spell("animebattle")}
            \cup {<<"#">> \o Spell(Association(seen[k])) : k \in known}
            \cup {<<"#">> \o Spell(seen[k]) : k \in known}

MainTitle ==
    LET seen == SeenFolders(title_entries, <<>>)
    IN  JoinStrings([k \in 1..Len(seen) |-> Spell(seen[k])], <<" ", "v", "s", " ">>)

\* C16: the title ends with the individual tags in lexicographic order,
\* space-joined, after the main title.
C16_TagsSorted ==
    titlePc = "returned" =>
        full_title = MainTitle \o <<" ">> \o JoinStrings(SortedStrings(IndividualTags), <<" ">>)

-----------------------------------------------------------------------------
\* The three stages run one after the other on two recordings: audio.py
\* derives the timeline of the first audio file from its events (the second
\* file's timeline is one segment), draft/segments.py assembles the units,
\* final.py composes the groups.

\* the timeline document of the second audio file
OtherTimeline == Timeline(<<"goku">>)

\* audio.py main: save_segments writes <base>_segments.json for each audio file
SaveSegments ==
    /\ audioPc = "returned"
    /\ segMain = "idle"
    /\ json_files' \in Listings({[base |-> audioDir[1], data |-> processed_timestamps],
                                 [base |-> audioDir[2], data |-> OtherTimeline]})
    /\ segMain' = "start"
    /\ UNCHANGED <<audioVars, finVars, concVars, asmVars, titleVars, cwd, clipsDir, fileIdx,
                   segIdx, csPc, segmentsDir>>

\* final.py started after segments.py ended: os.listdir(SEGMENTS_DIR)
ListSegmentsDir ==
    /\ segMain \in {"done", "error"}
    /\ csPc = "idle"
    /\ finMain = "idle"
    /\ segListing' \in Listings(segmentsDir)
    /\ finMain' = "start"
    /\ UNCHANGED <<audioVars, segVars, concVars, asmVars, titleVars, cwd, audioDir,
                   segment_groups, groupIdx, pvgPc, segments, audio_file, engineLog,
                   final_videos>>

\* the first audio file has no keyword event or one
InitPipeline ==
    /\ raw_timestamps \in {evs \in EventLists : Len(evs) <= 1}
    /\ audio_duration \in Times
    /\ processed_timestamps = <<>>
    /\ audioPc = "start"
    /\ json_files = <<>>
    /\ clipsDir \in [Keywords -> {"missing", "clips"}]
    /\ segMain = "idle"
    /\ fileIdx = 0
    /\ segIdx = 0
    /\ csPc = "idle"
    /\ segmentsDir = {}
    /\ segListing = <<>>
    /\ audioDir \in Listings({Recordings[1], Recordings[2]})
    /\ segment_groups = <<>>
    /\ finMain = "idle"
    /\ groupIdx = 0
    /\ pvgPc = "idle"
    /\ segments = <<>>
    /\ audio_file = <<>>
    /\ engineLog = <<>>
    /\ final_videos = {}
    /\ IdleConc
    /\ IdleAsm
    /\ IdleTitle
    /\ cwd = {}

NextPipeline ==
    \/ NextAudio
    \/ SaveSegments
    \/ NextSegments
    \/ ListSegmentsDir
    \/ NextFinal

SpecPipeline == InitPipeline /\ [][NextPipeline]_vars

-----------------------------------------------------------------------------
\* Claim about a recording without keyword events (checked under SpecPipeline)

EmptyRecording == audioDir[1]
OtherRecording == audioDir[2]
OtherUnit == UnitName(OtherRecording, 0, "goku")

\* C15: for a recording with an empty event list, whatever the duration, the
\* returned segment list is empty; no unit is assembled, no group is formed,
\* no invocation runs and no final artifact is produced for it; no stage
\* fails while handling it; and the other recording gets its unit and its
\* final artifact whenever its own stages end without a failure.
C15_EmptyRecordingSkipped ==
    raw_timestamps = <<>> =>
        /\ audioPc = "returned" => processed_timestamps = <<>>
        /\ \A u \in segmentsDir : BaseName(u) # EmptyRecording
        /\ \A g \in 1..Len(segment_groups) : segment_groups[g].base # EmptyRecording
        /\ \A k \in 1..Len(engineLog) : engineLog[k].group # EmptyRecording
        /\ \A v \in final_videos : v.by # EmptyRecording
        /\ segMain = "error" => CurrentFile.base # EmptyRecording
        /\ finMain = "error" => CurrentGroup.base # EmptyRecording
        /\ (segMain = "done" /\ clipsDir["goku"] = "clips") => OtherUnit \in segmentsDir
        /\ (finMain = "done" /\ OtherUnit \in segmentsDir) => HasArtifact(OtherRecording)

C15_Witness ==
    /\ raw_timestamps = <<>>
    /\ audioPc = "returned"
    /\ \E f \in 1..Len(json_files) :
          json_files[f].base = EmptyRecording /\ json_files[f].data = <<>>
    /\ segMain = "done"
    /\ finMain = "done"
    /\ HasArtifact(OtherRecording)

====
